---- MODULE Spec2Model ----
(***************************************************************************)
(* Antigravity Pulse: a model of the orchestration layer (extension.ts),   *)
(* the process locator (process-finder.ts) and the quota classifier        *)
(* (quota-fetcher.ts, dynamic-pool revision).                              *)
(*                                                                         *)
(* The specifications share the variables:                                 *)
(*   Spec / FairSpec  the extension's event loop: activation, the polling  *)
(*                    timer, the refresh command, teardown;                *)
(*   SpecLocator      one run of findAntigravityProcess, step by step;     *)
(*   SpecClassify     parseResponse applied to a bounded raw payload.      *)
(*   SpecNet          the requests of one connection: the probe of a port  *)
(*                    and the status call, with their transport schemes;   *)
(*   SpecFn           one call of a pure function: display, pool naming.   *)
(* A specification leaves the other parts' variables at their initial      *)
(* value.                                                                  *)
(***************************************************************************)
EXTENDS Integers, Sequences, FiniteSets, Bags, TLC

VARIABLES
    \* ---- environment of the extension
    world,          \* g > 0: the language server's g-th incarnation is up; -g: it has
                    \* stopped; 0: none was started yet
    \* ---- extension.ts module state (lines 14-17)
    statusBar,      \* what statusBarItem shows: [mode, snap]
    pollingTimer,   \* TRUE while a setInterval handle is stored and live
    processInfo,    \* ProcessInfo | null
    lastSnapshot,   \* QuotaSnapshot | null
    \* ---- the event loop
    activated,      \* activate() ran and deactivate() has not
    tasks,          \* the async invocations in flight: a bag of task records
    ev,             \* what the last step completed (a refreshQuota return), or NoEv
    \* ---- one run of findAntigravityProcess
    platform, wsHint, lpc, procOut, parsed, ports, answering, probed, located,
    \* ---- one run of parseResponse
    payload, cpc, snapshot, statusText,
    \* ---- the requests of one connection: a probe, then a status call
    server, npc, requests, verified, fetched,
    \* ---- one call of a pure function of the display
    call, result

orchVars == <<world, statusBar, pollingTimer, processInfo, lastSnapshot, activated, tasks, ev>>
locVars == <<platform, wsHint, lpc, procOut, parsed, ports, answering, probed, located>>
clsVars == <<payload, cpc, snapshot, statusText>>
netVars == <<server, npc, requests, verified, fetched>>
fnVars == <<call, result>>
vars == <<orchVars, locVars, clsVars, netVars, fnVars>>

\* null / undefined
Null == [null |-> TRUE]

\* ---- bounds of the model
MaxGen == 2         \* incarnations (port/token pairs) of the language server
MaxCycles == 2      \* timer-tick and refresh-command invocations in flight at once
MaxProcs == 2       \* lines of the process listing
MaxPort == 3        \* listening ports 1..MaxPort, and lines of the port listing
MaxModels == 2      \* entries of clientModelConfigs in a payload
MaxDays == 2        \* durations given to formatTime: up to MaxDays days
MaxInterval == 60   \* configured polling intervals: -MaxInterval..MaxInterval seconds
MaxMembers == 3     \* members of a bucket given to derivePoolName

(***************************************************************************)
(* extension.ts                                                            *)
(***************************************************************************)

\* A step of the extension leaves the other parts alone.
OrchFrame == UNCHANGED <<locVars, clsVars, netVars, fnVars>>

Gens == 1..MaxGen

\* ProcessInfo (process-finder.ts:13-16) of the server's g-th incarnation.
ProcessInfoOf(g) == [port |-> g, csrfToken |-> g]

\* An async invocation: detectAndStart ("init"), an interval callback
\* ("tick") or the refresh command ("manual"), where it is suspended, the
\* arguments of its fetch in flight, what its re-detection returned, and how
\* many detections and fetches its refreshQuota has issued.
Task(k, pc) == [kind |-> k, pc |-> pc, port |-> 0, csrfToken |-> 0,
                fresh |-> Null, nDetect |-> 0, nFetch |-> 0]

One(tk) == SetToBag({tk})
Running == BagToSet(tasks)

NoEv == [type |-> "none"]

\* The status bar states of extension.ts:237-262 and of updateStatusBar.
Shown(mode) == [mode |-> mode, snap |-> 0]
showLoading == Shown("loading")
showErrorKeepsDisplay(msg) == Shown("loading")
showError(msg) == [mode |-> "error", snap |-> 0, msg |-> msg]
updateStatusBar(snap) == [mode |-> "snapshot", snap |-> snap.gen]

IsError(sb) == sb.mode = "error"

\* findAntigravityProcess as the extension sees it: the live server's
\* connection descriptor, or null when none can be reached.
findAntigravityProcess == IF world <= 0 THEN Null ELSE ProcessInfoOf(world)

\* fetchQuota(port, token) resolves iff that port/token is the live server's.
FetchOk(tk) == world > 0 /\ tk.port = world /\ tk.csrfToken = world
SnapshotOf(tk) == [gen |-> tk.port]

\* A continuation queued behind a resolved promise runs before any other
\* callback: no timer, command or I/O completion interleaves with it.
MicrotaskPending == \E tk \in Running : tk.pc = "returned"

\* Interval callbacks and refresh commands not yet finished.
Cycles == BagCardinality(tasks) - Cardinality({tk \in Running : tk.kind = "init"})

InRefresh(tk) == tk.pc \in {"fetch1", "detect", "fetch2"}
InFlightBag == [tk \in {x \in Running : InRefresh(x)} |-> tasks[tk]]
InFlight == BagCardinality(InFlightBag)

\* extension.ts:115-122.
stopPolling == FALSE
startPolling == TRUE

InitialRefreshTimerArmed == startPolling
\* detectAndStart (extension.ts:70-72) awaits refreshQuota before it calls
\* startPolling: the timer is as it was while the initial cycle runs.
InitialRefreshTimer == pollingTimer

\* refreshQuota's catch block (extension.ts:93-95): the first fetch failure is
\* answered by one re-detection.
OnFirstFetchFailure == "detect"

RetryLoop == "detect"
\* extension.ts:102-104: a failed second fetch falls through to showError.
OnRetryFailure == "fail"

RetryArgsStale(old, fresh) == old
\* extension.ts:95-98: the second fetch reads port and token from the
\* processInfo the re-detection has just stored.
RetryArgs(old, fresh) == fresh

\* The record of a refreshQuota invocation that returned in this step.
EndEv(k, ok, why, tk) ==
    [type |-> "end", kind |-> k, ok |-> ok, why |-> why,
     port |-> tk.port,
     nDetect |-> tk.nDetect, nFetch |-> tk.nFetch]

\* Where the caller of refreshQuota goes on its return: the timer callback
\* (extension.ts:117) drops the promise; detectAndStart and the refresh
\* command await it and continue in a microtask.
AfterReturn(k) == IF k = "tick" THEN EmptyBag ELSE One(Task(k, "returned"))

\* refreshQuota up to its first await (extension.ts:83-90), called by an
\* invocation of kind k with the status bar at sb; rest is the other tasks.
BeginRefresh(rest, k, sb) ==
    IF processInfo' = Null
    THEN /\ statusBar' = showError("No connection")
         /\ tasks' = rest (+) AfterReturn(k)
         /\ ev' = EndEv(k, FALSE, "noconn", Task(k, "start"))
    ELSE /\ statusBar' = sb
         /\ tasks' = rest (+) One([Task(k, "fetch1") EXCEPT
                                       !.port = processInfo'.port,
                                       !.csrfToken = processInfo'.csrfToken,
                                       !.nFetch = 1])
         /\ ev' = NoEv

\* extension.ts:90-92 and 98-101: the fetch resolved; store and show it.
FetchResolved(tk, why) ==
    /\ FetchOk(tk)
    /\ lastSnapshot' = SnapshotOf(tk)
    /\ statusBar' = updateStatusBar(SnapshotOf(tk))
    /\ tasks' = (tasks (-) One(tk)) (+) AfterReturn(tk.kind)
    /\ ev' = EndEv(tk.kind, TRUE, why, tk)

\* extension.ts:104: showError('Fetch failed') and return.
FetchFailed(tk, why) ==
    /\ statusBar' = showError("Fetch failed")
    /\ tasks' = (tasks (-) One(tk)) (+) AfterReturn(tk.kind)
    /\ ev' = EndEv(tk.kind, FALSE, why, tk)

\* detectProcess resolved (extension.ts:78-81), in detectAndStart (68-76) or
\* in the refresh command (31-32).
DetectDone(tk) ==
    /\ OrchFrame
    /\ ~MicrotaskPending
    /\ tk.pc = "detect0"
    /\ processInfo' = findAntigravityProcess
    /\ IF tk.kind = "init" /\ processInfo' = Null
       THEN /\ statusBar' = showError("Antigravity not found")
            /\ tasks' = tasks (-) One(tk)
            /\ ev' = NoEv
       ELSE BeginRefresh(tasks (-) One(tk), tk.kind, statusBar)
    /\ pollingTimer' = IF tk.kind = "init" /\ processInfo' # Null
                       THEN InitialRefreshTimer ELSE pollingTimer
    /\ UNCHANGED <<world, lastSnapshot, activated>>

Fetch1Ok(tk) ==
    /\ OrchFrame
    /\ ~MicrotaskPending
    /\ tk.pc = "fetch1"
    /\ FetchResolved(tk, "first")
    /\ UNCHANGED <<world, pollingTimer, processInfo, activated>>

\* extension.ts:93-95: the first fetch rejected; re-detect once.
Fetch1Fail(tk) ==
    /\ OrchFrame
    /\ ~MicrotaskPending
    /\ tk.pc = "fetch1"
    /\ ~FetchOk(tk)
    /\ tasks' = (tasks (-) One(tk)) (+)
                One([tk EXCEPT !.pc = OnFirstFetchFailure, !.nDetect = @ + 1])
    /\ ev' = NoEv
    /\ UNCHANGED <<world, statusBar, pollingTimer, processInfo, lastSnapshot, activated>>

\* extension.ts:95-98 and 104: the re-detection resolved.
RedetectDone(tk) ==
    /\ OrchFrame
    /\ ~MicrotaskPending
    /\ tk.pc = "detect"
    /\ processInfo' = findAntigravityProcess
    /\ IF processInfo' # Null
       THEN LET a == RetryArgs([port |-> tk.port, csrfToken |-> tk.csrfToken],
                               processInfo')
            IN /\ tasks' = (tasks (-) One(tk)) (+)
                           One([tk EXCEPT !.pc = "fetch2",
                                          !.port = a.port,
                                          !.csrfToken = a.csrfToken,
                                          !.fresh = processInfo',
                                          !.nFetch = @ + 1])
               /\ ev' = NoEv
               /\ UNCHANGED statusBar
       ELSE FetchFailed(tk, "redetect")
    /\ UNCHANGED <<world, pollingTimer, lastSnapshot, activated>>

Fetch2Ok(tk) ==
    /\ OrchFrame
    /\ ~MicrotaskPending
    /\ tk.pc = "fetch2"
    /\ FetchResolved(tk, "second")
    /\ UNCHANGED <<world, pollingTimer, processInfo, activated>>

Fetch2Fail(tk) ==
    /\ OrchFrame
    /\ ~MicrotaskPending
    /\ tk.pc = "fetch2"
    /\ ~FetchOk(tk)
    /\ IF OnRetryFailure = "fail"
       THEN FetchFailed(tk, "second")
       ELSE /\ tasks' = (tasks (-) One(tk)) (+)
                        One([tk EXCEPT !.pc = OnRetryFailure, !.nDetect = @ + 1])
            /\ ev' = NoEv
            /\ UNCHANGED statusBar
    /\ UNCHANGED <<world, pollingTimer, processInfo, lastSnapshot, activated>>


\* How the refreshQuota that has just returned ended: "failed" when its fetch
\* and the retry failed, "done" when it stored a snapshot or had no
\* connection to fetch from.
RefreshOutcome ==
    IF ~ev.ok /\ ev.why # "noconn" THEN "failed" ELSE "done"

\* The code after `await refreshQuota()`: startPolling() in detectAndStart
\* (extension.ts:72), showRefreshConfirmation() in the refresh command (33,
\* 244-255), which arms a 1500 ms timeout. refreshQuota returns nothing: how
\* it ended (ev, set by its last step) is kept with the waiting timeout for
\* the record only.
Continue(tk) ==
    /\ OrchFrame
    /\ tk.pc = "returned"
    /\ IF tk.kind = "init"
       THEN /\ pollingTimer' = startPolling
            /\ tasks' = tasks (-) One(tk)
            /\ UNCHANGED statusBar
       ELSE /\ statusBar' = Shown("refreshed")
            /\ tasks' = (tasks (-) One(tk)) (+)
                        One([tk EXCEPT !.pc = "confirmWait"] @@ [outcome |-> RefreshOutcome])
            /\ UNCHANGED pollingTimer
    /\ ev' = NoEv
    /\ UNCHANGED <<world, processInfo, lastSnapshot, activated>>

\* The timeout of showRefreshConfirmation (extension.ts:250-254).
ConfirmTimeout(tk) ==
    /\ OrchFrame
    /\ ~MicrotaskPending
    /\ tk.pc = "confirmWait"
    /\ statusBar' = IF lastSnapshot # Null THEN updateStatusBar(lastSnapshot) ELSE statusBar
    /\ tasks' = tasks (-) One(tk)
    /\ ev' = NoEv
    /\ UNCHANGED <<world, pollingTimer, processInfo, lastSnapshot, activated>>

\* The interval callback () => refreshQuota() (extension.ts:117).
TimerTick ==
    /\ OrchFrame
    /\ ~MicrotaskPending
    /\ pollingTimer
    /\ Cycles < MaxCycles
    /\ UNCHANGED processInfo
    /\ BeginRefresh(tasks, "tick", statusBar)
    /\ UNCHANGED <<world, pollingTimer, lastSnapshot, activated>>

\* The command antigravityPulse.refresh up to its first await
\* (extension.ts:29-32).
RefreshCommand ==
    /\ OrchFrame
    /\ ~MicrotaskPending
    /\ activated
    /\ Cycles < MaxCycles
    /\ UNCHANGED processInfo
    /\ IF processInfo = Null
       THEN /\ statusBar' = showLoading
            /\ tasks' = tasks (+) One(Task("manual", "detect0"))
            /\ ev' = NoEv
       ELSE BeginRefresh(tasks, "manual", showLoading)
    /\ UNCHANGED <<world, pollingTimer, lastSnapshot, activated>>

\* toggleClockFormat / toggleResetTime (extension.ts:35-49): after the setting
\* is stored, the kept snapshot is rendered again.
ToggleCommand ==
    /\ OrchFrame
    /\ ~MicrotaskPending
    /\ activated
    /\ lastSnapshot # Null
    /\ statusBar' = updateStatusBar(lastSnapshot)
    /\ ev' = NoEv
    /\ UNCHANGED <<world, pollingTimer, processInfo, lastSnapshot, activated, tasks>>

\* deactivate (extension.ts:61-64); the commands are disposed with the context.
Deactivate ==
    /\ OrchFrame
    /\ ~MicrotaskPending
    /\ activated
    /\ activated' = FALSE
    /\ pollingTimer' = stopPolling
    /\ ev' = NoEv
    /\ UNCHANGED <<world, statusBar, processInfo, lastSnapshot, tasks>>

\* The language server stops, starts or restarts. Every incarnation listens on
\* a port and carries a token of its own, so an earlier one never comes back.
EnvChange ==
    /\ OrchFrame
    /\ ~MicrotaskPending
    /\ \E w \in (-MaxGen)..MaxGen :
          /\ IF world > 0 THEN w \in {-world, world + 1} ELSE w = 1 - world
          /\ world' = w
    /\ ev' = NoEv
    /\ UNCHANGED <<statusBar, pollingTimer, processInfo, lastSnapshot, activated, tasks>>

\* The state activate() leaves (extension.ts:21-57): loading shown,
\* detectAndStart awaiting detectProcess.
OrchInit ==
    /\ world \in {0, 1}
    /\ statusBar = showLoading
    /\ pollingTimer = FALSE
    /\ processInfo = Null
    /\ lastSnapshot = Null
    /\ activated = TRUE
    /\ tasks = One(Task("init", "detect0"))
    /\ ev = NoEv

LocIdle ==
    /\ platform = "none" /\ wsHint = FALSE /\ lpc = "off" /\ procOut = <<>>
    /\ parsed = Null /\ ports = <<>> /\ answering = {} /\ probed = <<>> /\ located = Null

ClsIdle == payload = Null /\ cpc = "off" /\ snapshot = Null /\ statusText = Null

NetIdle ==
    /\ server = Null /\ npc = "off" /\ requests = <<>>
    /\ verified = FALSE /\ fetched = FALSE

FnIdle == call = Null /\ result = Null

Init == OrchInit /\ LocIdle /\ ClsIdle /\ NetIdle /\ FnIdle

TaskStep(tk) ==
    \/ DetectDone(tk)
    \/ Fetch1Ok(tk)
    \/ Fetch1Fail(tk)
    \/ RedetectDone(tk)
    \/ Fetch2Ok(tk)
    \/ Fetch2Fail(tk)
    \/ Continue(tk)
    \/ ConfirmTimeout(tk)

Next ==
    \/ \E tk \in Running : DetectDone(tk)
    \/ \E tk \in Running : Fetch1Ok(tk)
    \/ \E tk \in Running : Fetch1Fail(tk)
    \/ \E tk \in Running : RedetectDone(tk)
    \/ \E tk \in Running : Fetch2Ok(tk)
    \/ \E tk \in Running : Fetch2Fail(tk)
    \/ \E tk \in Running : Continue(tk)
    \/ \E tk \in Running : ConfirmTimeout(tk)
    \/ TimerTick
    \/ RefreshCommand
    \/ ToggleCommand
    \/ Deactivate
    \/ EnvChange

Spec == Init /\ [][Next]_vars

\* Every awaited operation settles (the requests carry timeouts) and an armed
\* timer fires; the user and the language server owe nothing.
FairSpec ==
    /\ Spec
    /\ WF_vars(TimerTick)
    /\ WF_vars(\E tk \in Running : TaskStep(tk))


(***************************************************************************)
(* process-finder.ts: one run of findAntigravityProcess                    *)
(***************************************************************************)

OrchIdle ==
    /\ world = 0 /\ statusBar = showLoading /\ pollingTimer = FALSE
    /\ processInfo = Null /\ lastSnapshot = Null /\ activated = FALSE
    /\ tasks = EmptyBag /\ ev = NoEv

LocFrame == UNCHANGED <<orchVars, clsVars, netVars, fnVars>>

Platforms == {"win32", "darwin", "linux"}

\* Workspace folders, as character sequences: /a, /a/b and "/a b".
Paths == { <<"/", "a">>, <<"/", "a", "/", "b">>, <<"/", "a", " ", "b">> }
NoPath == <<>>

RECURSIVE Escape(_)
\* folderPath.replace(/ /g, '_20').replace(/\//g, '_')  (process-finder.ts:115)
Escape(path) ==
    IF path = <<>> THEN <<>>
    ELSE (CASE Head(path) = " " -> <<"_", "2", "0">>
            [] Head(path) = "/" -> <<"_">>
            [] OTHER -> <<Head(path)>>) \o Escape(Tail(path))

\* process-finder.ts:114-116.
toWorkspaceId(folderPath) == <<"f", "i", "l", "e">> \o Escape(folderPath)

\* String.prototype.includes.
Includes(text, part) ==
    \E i \in 0..(Len(text) - Len(part)) : SubSeq(text, i + 1, i + Len(part)) = part

\* A line of the process listing. pid: the process id; tok: the command line
\* carries --csrf_token; ws: the folder of its --workspace_id (NoPath: none);
\* own: the command line passes the platform's filter, --extension_server_port
\* on macOS/Linux (line 120), the antigravity directory on Windows (82-87).
ProcLine(pid, tok, ws, own) == [pid |-> pid, tok |-> tok, ws |-> ws, own |-> own]

\* The text of the command line that the workspace match reads.
CmdLine(l) == IF l.ws = NoPath THEN <<>> ELSE toWorkspaceId(l.ws)

ProcListings ==
    UNION { { [i \in 1..n |-> ProcLine(i, f[i][1], f[i][2], f[i][3])] :
              f \in [1..n -> BOOLEAN \X (Paths \cup {NoPath}) \X BOOLEAN] }
            : n \in 1..MaxProcs }

TokenOf(l) == IF l.tok THEN "tok" ELSE ""

\* process-finder.ts:77-107. A listing of one process is a JSON object and is
\* not filtered; the workspace path is not a parameter.
parseWindows(stdout) ==
    LET IsOwn(l) == l.own
        data == IF Len(stdout) > 1 THEN SelectSeq(stdout, IsOwn) ELSE stdout
    IN IF data = <<>> THEN Null
       ELSE IF ~data[1].tok THEN Null
       ELSE [pid |-> data[1].pid, csrfToken |-> TokenOf(data[1])]

\* process-finder.ts:118-138.
parseUnix(stdout, workspacePath) ==
    LET HasPortFlag(l) == l.own
        lines == SelectSeq(stdout, HasPortFlag)
        wsId == IF workspacePath # NoPath THEN toWorkspaceId(workspacePath) ELSE NoPath
        Hit(l) == Includes(CmdLine(l), wsId)
        found == SelectSeq(lines, Hit)
        target == IF wsId # NoPath /\ found # <<>> THEN found[1]
                  ELSE IF lines # <<>> THEN lines[1] ELSE Null
    IN IF target = Null THEN Null
       ELSE [pid |-> target.pid, csrfToken |-> TokenOf(target)]

\* process-finder.ts:70-75.
parseProcessOutput(stdout, workspacePath) ==
    IF platform = "win32" THEN parseWindows(stdout) ELSE parseUnix(stdout, workspacePath)

\* A line of the port listing: fmt "lsof" is a line the regular expression of
\* lines 170-173 matches for this pid, "ss" one of the ss listing that Linux
\* tries first (line 146), which the expression does not match; on Windows
\* every entry is a number of the JSON listing.
PortLines == [port : 1..MaxPort, fmt : {"lsof", "ss"}]
PortListings == UNION { [1..n -> PortLines] : n \in 0..MaxPort }

RECURSIVE Dedup(_, _)
\* if (!ports.includes(p)) { ports.push(p); }
Dedup(seq, acc) ==
    IF seq = <<>> THEN acc
    ELSE Dedup(Tail(seq), IF \E i \in 1..Len(acc) : acc[i] = Head(seq)
                          THEN acc ELSE Append(acc, Head(seq)))

RECURSIVE Insert(_, _)
Insert(x, sorted) ==
    IF sorted = <<>> THEN <<x>>
    ELSE IF x <= Head(sorted) THEN <<x>> \o sorted
    ELSE <<Head(sorted)>> \o Insert(x, Tail(sorted))

RECURSIVE SortAsc(_)
\* ports.sort((a, b) => a - b)
SortAsc(seq) == IF seq = <<>> THEN <<>> ELSE Insert(Head(seq), SortAsc(Tail(seq)))

PortsOf(lines) == [i \in 1..Len(lines) |-> lines[i].port]

parsePortOutputUnsorted(stdout) ==
    LET Matches(l) == platform = "win32" \/ l.fmt = "lsof"
    IN Dedup(PortsOf(SelectSeq(stdout, Matches)), <<>>)

\* process-finder.ts:155-180.
parsePortOutput(stdout) ==
    LET Matches(l) == platform = "win32" \/ l.fmt = "lsof"
    IN SortAsc(Dedup(PortsOf(SelectSeq(stdout, Matches)), <<>>))

Range(seq) == {seq[i] : i \in 1..Len(seq)}

\* findProcess (process-finder.ts:59-68) settles: the listing command failed
\* (execAsync rejects, caught at line 42), or it printed procOut, the matching
\* lines of the process table, and they are parsed; line 33 returns null when
\* nothing was parsed. The output is a local of findProcess and is gone after.
FindProcess ==
    /\ LocFrame
    /\ lpc = "findProcess"
    /\ \/ parsed' = Null
       \/ parsed' = parseProcessOutput(procOut, wsHint)
    /\ procOut' = <<>>
    /\ IF parsed' = Null
       THEN lpc' = "done" /\ located' = Null
       ELSE lpc' = "ports" /\ UNCHANGED located
    /\ UNCHANGED <<platform, wsHint, ports, answering, probed>>

\* getListeningPorts (process-finder.ts:140-153) settles with the ports parsed
\* from the listing, [] when the command failed; line 36 returns null on [].
\* answering: the ports whose probe would be answered with 200 and JSON.
GetListeningPorts ==
    /\ LocFrame
    /\ lpc = "ports"
    /\ \/ ports' = <<>>
       \/ \E out \in PortListings : ports' = parsePortOutput(out)
    /\ IF ports' = <<>>
       THEN lpc' = "done" /\ located' = Null /\ answering' = {}
       ELSE /\ lpc' = "probe"
            /\ answering' \in SUBSET Range(ports')
            /\ UNCHANGED located
    /\ probed' = <<>>
    /\ UNCHANGED <<platform, wsHint, procOut, parsed>>

\* One turn of findWorkingPort's loop (process-finder.ts:182-188): testPort
\* (190-221) settles for the next port; lines 39-41 build the result.
ProbePort ==
    /\ LocFrame
    /\ lpc = "probe"
    /\ LET port == ports[Len(probed) + 1]
           ok == port \in answering
       IN /\ probed' = Append(probed, port)
          /\ IF ok
             THEN lpc' = "done" /\ located' = [port |-> port, csrfToken |-> parsed.csrfToken]
             ELSE IF Len(probed') = Len(ports)
             THEN lpc' = "done" /\ located' = Null
             ELSE lpc' = "probe" /\ UNCHANGED located
    /\ UNCHANGED <<platform, wsHint, procOut, parsed, ports, answering>>

LocInit ==
    /\ platform \in Platforms
    /\ wsHint \in Paths \cup {NoPath}
    /\ lpc = "findProcess"
    /\ procOut \in ProcListings
    /\ parsed = Null /\ ports = <<>> /\ answering = {}
    /\ probed = <<>> /\ located = Null

LocNext ==
    \/ FindProcess
    \/ GetListeningPorts
    \/ ProbePort

InitLocator == LocInit /\ OrchIdle /\ ClsIdle /\ NetIdle /\ FnIdle

SpecLocator == InitLocator /\ [][LocNext]_vars

(***************************************************************************)
(* quota-fetcher: parseResponse, the classification of one payload         *)
(***************************************************************************)

ClsFrame == UNCHANGED <<orchVars, locVars, netVars, fnVars>>

Labels == {"Gemini 3 Pro", "Gemini 3 Flash", "Claude Sonnet 4.5", "GPT-OSS 120B", "Llama"}

\* The substrings that classifyFamily looks for, as contained in the
\* lower-cased text.
Keywords(text) ==
    CASE text = "Gemini 3 Pro" -> {"gemini"}
      [] text = "Gemini 3 Flash" -> {"gemini", "flash"}
      [] text = "Claude Sonnet 4.5" -> {"claude"}
      [] text = "GPT-OSS 120B" -> {"gpt"}
      [] OTHER -> {}

\* quota-fetcher:71-80, on label + ' ' + modelId.
classifyFamily(label, modelId) ==
    LET lower == Keywords(label) \cup Keywords(modelId)
    IN IF "claude" \in lower THEN "claude"
       ELSE IF "gpt" \in lower THEN "gpt"
       ELSE IF "gemini" \in lower
            THEN IF "flash" \in lower THEN "gemini_flash" ELSE "gemini"
       ELSE "other"

\* Reset times as the payload spells them: twice the same instant, a later
\* one, and a text that is no date ("undefined": the field is absent).
RawResetTimes ==
    {"2026-03-01T00:00:00Z", "2026-03-01T00:00:00.000Z", "2026-03-02T00:00:00Z", "undefined"}

InvalidDate == [invalid |-> TRUE]

\* new Date(text): the instant, in days of March 2026, or Invalid Date.
DateOf(text) ==
    CASE text \in {"2026-03-01T00:00:00Z", "2026-03-01T00:00:00.000Z"} -> [day |-> 1]
      [] text = "2026-03-02T00:00:00Z" -> [day |-> 2]
      [] OTHER -> InvalidDate

\* Date.prototype.toISOString of a valid date (it throws on Invalid Date).
toISOString(date) ==
    IF date.day = 1 THEN "2026-03-01T00:00:00.000Z" ELSE "2026-03-02T00:00:00.000Z"

\* quotaInfo objects; remainingFraction, 0..1 in the response schema, is in
\* tenths and may be absent.
QuotaInfos ==
    [resetTime : RawResetTimes]
    \cup [resetTime : RawResetTimes, remainingFraction : {0, 5, 10}]

\* Entries of clientModelConfigs, with and without quotaInfo.
RawModels == {[label |-> "Llama"]} \cup [label : Labels, quotaInfo : QuotaInfos]

\* planStatus objects: planInfo with a positive, zero, negative or no monthly
\* allotment, or no planInfo; an available amount, zero, or none.
PlanStatuses ==
    [planInfo : [monthlyPromptCredits : {-10, 0, 10}], availablePromptCredits : {0, 5}]
    \cup [planInfo : [monthlyPromptCredits : {-10, 0, 10}]]
    \cup { [planInfo |-> [planName |-> "Pro"], availablePromptCredits |-> 5],
           [availablePromptCredits |-> 5] }

\* userStatus objects. The credits and the models are read independently of
\* each other (quota-fetcher:188-200 and 203-262): the payloads with a
\* planStatus carry at most one model, those without up to MaxModels.
Payloads ==
    UNION { [clientModelConfigs : [1..n -> RawModels]] : n \in 0..MaxModels }
    \cup UNION { [clientModelConfigs : [1..n -> RawModels], planStatus : PlanStatuses]
                 : n \in 0..1 }

HasQuota(raw) == "quotaInfo" \in DOMAIN raw

CreditsIgnoringAvailable(data) ==
    LET status == IF "planStatus" \in DOMAIN data THEN data.planStatus ELSE Null
        monthly == IF "planInfo" \in DOMAIN status
                      /\ "monthlyPromptCredits" \in DOMAIN status.planInfo
                   THEN status.planInfo.monthlyPromptCredits ELSE 0
        available == IF "availablePromptCredits" \in DOMAIN status
                     THEN status.availablePromptCredits ELSE 0
    IN IF monthly > 0
       THEN [available |-> available, monthly |-> monthly,
             remainingPct |-> (available * 100) \div monthly]
       ELSE Null

\* quota-fetcher:184-200. planInfo and availableRaw are read through ?., the
\* credits are built when both are there and Number(monthly) > 0, which is
\* false of Number(undefined).
CreditsOf(data) ==
    LET status == IF "planStatus" \in DOMAIN data THEN data.planStatus ELSE Null
        hasPlanInfo == "planInfo" \in DOMAIN status
        hasAvailable == "availablePromptCredits" \in DOMAIN status
    IN IF hasPlanInfo /\ hasAvailable
          /\ "monthlyPromptCredits" \in DOMAIN status.planInfo
          /\ status.planInfo.monthlyPromptCredits > 0
       THEN [available |-> status.availablePromptCredits,
             monthly |-> status.planInfo.monthlyPromptCredits,
             remainingPct |-> (status.availablePromptCredits * 100)
                                  \div status.planInfo.monthlyPromptCredits]
       ELSE Null

ModelQuotaOfFraction(raw, ref) ==
    LET fraction == IF "remainingFraction" \in DOMAIN raw.quotaInfo
                    THEN raw.quotaInfo.remainingFraction ELSE 0
    IN [ref |-> ref,
        label |-> raw.label,
        family |-> classifyFamily(raw.label, "unknown"),
        remainingPct |-> fraction,
        isExhausted |-> (fraction = 0),
        resetTime |-> DateOf(raw.quotaInfo.resetTime)]

\* quota-fetcher:206-221, the ModelQuota of one entry. ref is the identity of
\* the object (the entry's place in the payload); fractions being in tenths,
\* fraction * 100 is ten times the number. timeUntilReset, which reads the
\* clock, is left out.
ModelQuotaOf(raw, ref) ==
    LET fraction == IF "remainingFraction" \in DOMAIN raw.quotaInfo
                    THEN raw.quotaInfo.remainingFraction ELSE 0
    IN [ref |-> ref,
        label |-> raw.label,
        family |-> classifyFamily(raw.label, "unknown"),
        remainingPct |-> fraction * 10,
        isExhausted |-> (fraction = 0),
        resetTime |-> DateOf(raw.quotaInfo.resetTime)]

RECURSIVE ModelsFrom(_, _)
\* quota-fetcher:203-222: rawModels.filter(m => m.quotaInfo).map(...)
ModelsFrom(rawModels, i) ==
    IF i > Len(rawModels) THEN <<>>
    ELSE (IF HasQuota(rawModels[i]) THEN <<ModelQuotaOf(rawModels[i], i)>> ELSE <<>>)
         \o ModelsFrom(rawModels, i + 1)

BucketKeyByFamily(m) == <<m.family>>

\* quota-fetcher:227.
BucketKey(m) == <<m.remainingPct, toISOString(m.resetTime)>>

RECURSIVE Bucketize(_, _)
\* quota-fetcher:225-232: a Map keeps its keys in the order of first insertion.
Bucketize(models, buckets) ==
    IF models = <<>> THEN buckets
    ELSE LET m == Head(models)
             Same(b) == b.key = BucketKey(m)
             at == {k \in 1..Len(buckets) : Same(buckets[k])}
         IN Bucketize(Tail(models),
                IF at = {}
                THEN Append(buckets, [key |-> BucketKey(m), members |-> <<m>>])
                ELSE [k \in 1..Len(buckets) |->
                        IF k \in at
                        THEN [buckets[k] EXCEPT !.members = Append(@, m)]
                        ELSE buckets[k]])

familyOrder == <<"gemini", "gemini_flash", "claude", "gpt", "other">>

IndexOf(seq, x) == CHOOSE i \in 1..Len(seq) : seq[i] = x

\* Every bucket of one rank: the order of discovery is kept.
MinRankIgnored(members) == 1

\* quota-fetcher:240-241: Math.min over the members' family indices.
MinRank(members) ==
    CHOOSE r \in 1..Len(familyOrder) :
        /\ \E i \in 1..Len(members) : IndexOf(familyOrder, members[i].family) = r
        /\ \A i \in 1..Len(members) : IndexOf(familyOrder, members[i].family) >= r

RECURSIVE InsertStable(_, _)
InsertStable(b, sorted) ==
    IF sorted = <<>> THEN <<b>>
    ELSE IF MinRank(b.members) < MinRank(Head(sorted).members) THEN <<b>> \o sorted
    ELSE <<Head(sorted)>> \o InsertStable(b, Tail(sorted))

RECURSIVE SortBuckets(_, _)
\* quota-fetcher:239-243: Array.prototype.sort is stable.
SortBuckets(buckets, sorted) ==
    IF buckets = <<>> THEN sorted
    ELSE SortBuckets(Tail(buckets), InsertStable(Head(buckets), sorted))

derivePoolNameProFirst(models) ==
    LET families == {models[i].family : i \in 1..Len(models)}
    IN IF "gemini" \in families THEN [id |-> "gemini_pro", displayName |-> "Gem Pro"]
       ELSE IF "gemini_flash" \in families
            THEN [id |-> "gemini_flash", displayName |-> "Gem Flash"]
       ELSE IF "claude" \in families \/ "gpt" \in families
            THEN [id |-> "claude_gpt", displayName |-> "Claude"]
       ELSE [id |-> "other", displayName |-> models[1].label]

\* The claude-or-gpt rule tested before the gemini rules.
derivePoolNameClaudeFirst(models) ==
    LET families == {models[i].family : i \in 1..Len(models)}
        hasPro == "gemini" \in families
        hasFlash == "gemini_flash" \in families
    IN IF "claude" \in families \/ "gpt" \in families
       THEN [id |-> "claude_gpt", displayName |-> "Claude"]
       ELSE IF hasPro /\ hasFlash THEN [id |-> "gemini", displayName |-> "Gemini"]
       ELSE IF hasPro THEN [id |-> "gemini_pro", displayName |-> "Gem Pro"]
       ELSE IF hasFlash THEN [id |-> "gemini_flash", displayName |-> "Gem Flash"]
       ELSE [id |-> "other", displayName |-> models[1].label]

\* quota-fetcher:85-111.
derivePoolName(models) ==
    LET families == {models[i].family : i \in 1..Len(models)}
        hasPro == "gemini" \in families
        hasFlash == "gemini_flash" \in families
    IN IF hasPro /\ hasFlash THEN [id |-> "gemini", displayName |-> "Gemini"]
       ELSE IF hasPro THEN [id |-> "gemini_pro", displayName |-> "Gem Pro"]
       ELSE IF hasFlash THEN [id |-> "gemini_flash", displayName |-> "Gem Flash"]
       ELSE IF "claude" \in families \/ "gpt" \in families
            THEN [id |-> "claude_gpt", displayName |-> "Claude"]
       ELSE [id |-> "other", displayName |-> models[1].label]

RECURSIVE Reduce(_, _)
\* quota-fetcher:247-249: members.reduce((a, b) => a.remainingPct < b.remainingPct ? a : b)
Reduce(a, rest) ==
    IF rest = <<>> THEN a
    ELSE Reduce(IF a.remainingPct < Head(rest).remainingPct THEN a ELSE Head(rest), Tail(rest))

\* The pool keeps its representative only.
PoolOfRepresentative(members) ==
    LET name == derivePoolName(members)
        repr == Reduce(Head(members), Tail(members))
    IN [id |-> name.id,
        displayName |-> name.displayName,
        remainingPct |-> repr.remainingPct,
        isExhausted |-> repr.isExhausted,
        resetTime |-> repr.resetTime,
        models |-> <<repr>>]

\* quota-fetcher:245-260.
PoolOf(members) ==
    LET name == derivePoolName(members)
        repr == Reduce(Head(members), Tail(members))
    IN [id |-> name.id,
        displayName |-> name.displayName,
        remainingPct |-> repr.remainingPct,
        isExhausted |-> repr.isExhausted,
        resetTime |-> repr.resetTime,
        models |-> members]

Threw == [threw |-> TRUE]

\* quota-fetcher:183-263. toISOString throws on an Invalid Date (line 227),
\* and the exception leaves parseResponse.
parseResponse(data) ==
    LET models == ModelsFrom(data.clientModelConfigs, 1)
        sortedBuckets == SortBuckets(Bucketize(models, <<>>), <<>>)
    IN IF \E i \in 1..Len(models) : models[i].resetTime = InvalidDate
       THEN Threw
       ELSE [credits |-> CreditsOf(data),
             pools |-> [k \in 1..Len(sortedBuckets) |-> PoolOf(sortedBuckets[k].members)],
             models |-> models]

\* extension.ts:127-134.
POOL_SHORT ==
    [all |-> "All Models", gemini |-> "Gemini", gemini_pro |-> "Gem Pro",
     gemini_flash |-> "Gem Flash", claude_gpt |-> "Claude", other |-> "Other"]

\* extension.ts:136-140.
healthDot(pct) ==
    IF pct > 50 THEN "green" ELSE IF pct > 20 THEN "yellow" ELSE "red"

\* extension.ts:195, the emoji of a pool in the tooltip.
TooltipEmoji(pct) ==
    IF pct > 50 THEN "green" ELSE IF pct > 20 THEN "yellow" ELSE "red"

\* extension.ts:149-156, one part of the status bar text (the percentages of
\* the model are whole numbers, which Math.round leaves as they are).
StatusBarPart(pool) ==
    [dot |-> healthDot(pool.remainingPct),
     short |-> IF pool.id \in DOMAIN POOL_SHORT THEN POOL_SHORT[pool.id]
               ELSE pool.displayName,
     pct |-> pool.remainingPct]

\* extension.ts:142-172, the parts joined by ' | '; no part stands for the
\* text '$(rocket) AG' of a snapshot without pools.
StatusBarText(snap) ==
    [k \in 1..Len(snap.pools) |-> StatusBarPart(snap.pools[k])]

\* fetchQuota resolves with the parseResponse of a payload (quota-fetcher:127)
\* and refreshQuota renders it (extension.ts:90-92); when parseResponse throws,
\* fetchQuota rejects and nothing is rendered.
Classify ==
    /\ ClsFrame
    /\ cpc = "ready"
    /\ \E data \in Payloads :
          /\ payload' = data
          /\ snapshot' = parseResponse(data)
    /\ statusText' = IF snapshot' = Threw THEN Null ELSE StatusBarText(snapshot')
    /\ cpc' = "done"

ClsInit == payload = Null /\ cpc = "ready" /\ snapshot = Null /\ statusText = Null

ClsNext == Classify

InitClassify == ClsInit /\ OrchIdle /\ LocIdle /\ NetIdle /\ FnIdle

SpecClassify == InitClassify /\ [][ClsNext]_vars

(***************************************************************************)
(* The requests of one connection: testPort, then fetchQuota               *)
(***************************************************************************)

NetFrame == UNCHANGED <<orchVars, locVars, clsVars, fnVars>>

Schemes == {"http", "https"}

\* What becomes of a request: the socket fails ("error"), nothing comes in
\* time ("timeout"), or a response ends with a status and a body.
Answers ==
    {[kind |-> "timeout"]}
    \cup [kind : {"response"}, statusCode : {200, 302, 404}, body : {"json", "garbage"}]

\* A listening port: the schemes it serves, and how it answers the probe
\* (GetUnleashData) and the status call (GetUserStatus) on a scheme it serves.
Servers == [port : {1}, serves : SUBSET Schemes, probe : Answers, status : Answers]

Outcome(protocol, endpoint) ==
    IF protocol \in server.serves THEN server[endpoint] ELSE [kind |-> "error"]

\* The options of the request of testPort (process-finder.ts:192-205).
TestPortRequest(port) ==
    [protocol |-> "https", hostname |-> "127.0.0.1", port |-> port,
     path |-> "GetUnleashData"]

\* process-finder.ts:206-218: resolve(true) on 200 with a body that parses,
\* resolve(false) on anything else.
TestPortOk(answer) ==
    answer.kind = "response" /\ answer.statusCode = 200 /\ answer.body = "json"

PostRequestLocalhost(port, protocol) ==
    [protocol |-> protocol, hostname |-> "localhost", port |-> port,
     path |-> "GetUserStatus"]

\* The options of the request of post (quota-fetcher:147-162).
PostRequest(port, protocol) ==
    [protocol |-> protocol, hostname |-> "127.0.0.1", port |-> port,
     path |-> "GetUserStatus"]

\* quota-fetcher:163-178: resolves on a status below 400 with a body that
\* parses, rejects on anything else.
PostResolves(answer) ==
    answer.kind = "response" /\ ~(answer.statusCode >= 400) /\ answer.body = "json"

\* testPort (process-finder.ts:190-221) settles; findAntigravityProcess returns
\* the port when it resolved true, and the extension goes on to fetchQuota.
TestPort ==
    /\ NetFrame
    /\ npc = "probe"
    /\ requests' = Append(requests, TestPortRequest(server.port))
    /\ verified' = TestPortOk(Outcome("https", "probe"))
    /\ npc' = IF verified' THEN "http" ELSE "done"
    /\ UNCHANGED <<server, fetched>>

\* postWithFallback (quota-fetcher:136-142): the http attempt settles.
PostHttp ==
    /\ NetFrame
    /\ npc = "http"
    /\ requests' = Append(requests, PostRequest(server.port, "http"))
    /\ fetched' = PostResolves(Outcome("http", "status"))
    /\ npc' = IF fetched' THEN "done" ELSE "https"
    /\ UNCHANGED <<server, verified>>

\* postWithFallback: the https attempt of the catch branch settles.
PostHttps ==
    /\ NetFrame
    /\ npc = "https"
    /\ requests' = Append(requests, PostRequest(server.port, "https"))
    /\ fetched' = PostResolves(Outcome("https", "status"))
    /\ npc' = "done"
    /\ UNCHANGED <<server, verified>>

NetInit ==
    /\ server \in Servers
    /\ npc = "probe" /\ requests = <<>>
    /\ verified = FALSE /\ fetched = FALSE

InitNet == NetInit /\ OrchIdle /\ LocIdle /\ ClsIdle /\ FnIdle

NetNext ==
    \/ TestPort
    \/ PostHttp
    \/ PostHttps

SpecNet == InitNet /\ [][NetNext]_vars

(***************************************************************************)
(* Pure functions of the display: formatTime, getIntervalMs, healthDot     *)
(***************************************************************************)

FnFrame == UNCHANGED <<orchVars, locVars, clsVars, netVars>>

\* Durations in ms: whole minutes from one minute ago to MaxDays days ahead,
\* and one millisecond past each.
Durations == {m * 60000 + r : m \in (-1)..(MaxDays * 24 * 60), r \in {0, 1}}

\* The labels of the members of a bucket, in the bucket's order.
MemberLabels == UNION {[1..n -> Labels] : n \in 1..MaxMembers}

\* The members of a bucket with these labels: one fraction, one reset time.
MembersOf(labels) ==
    [i \in 1..Len(labels) |->
        ModelQuotaOf([label |-> labels[i],
                      quotaInfo |-> [resetTime |-> "2026-03-01T00:00:00Z",
                                     remainingFraction |-> 5]], i)]

\* The calls: formatTime(ms), healthDot(pct) and the tooltip's emoji for a
\* percentage, getIntervalMs() under a configured pollingInterval or none.
Calls ==
    [fn : {"formatTime"}, arg : Durations]
    \cup [fn : {"healthDot"}, arg : 0..100]
    \cup [fn : {"getIntervalMs"}, arg : (-MaxInterval)..MaxInterval]
    \cup {[fn |-> "getIntervalMs"]}
    \cup [fn : {"derivePoolName"}, arg : MemberLabels]

\* Math.ceil(a / b) for b > 0.
Ceil(a, b) == IF a % b = 0 THEN a \div b ELSE (a \div b) + 1

Max(a, b) == IF a >= b THEN a ELSE b

formatTimeHoursOnly(ms) ==
    IF ms <= 0 THEN "Now"
    ELSE LET mins == Ceil(ms, 60000)
             h == mins \div 60
         IN IF mins < 60 THEN ToString(mins) \o "m"
            ELSE ToString(h) \o "h " \o ToString(mins % 60) \o "m"

\* Whole minutes rounded down instead of up.
formatTimeFloorMinutes(ms) ==
    IF ms <= 0 THEN "Now"
    ELSE LET mins == ms \div 60000
             h == mins \div 60
             d == h \div 24
             remH == h % 24
         IN IF mins < 60 THEN ToString(mins) \o "m"
            ELSE IF h >= 24
                 THEN IF remH > 0 THEN ToString(d) \o "d " \o ToString(remH) \o "h"
                      ELSE ToString(d) \o "d"
            ELSE ToString(h) \o "h " \o ToString(mins % 60) \o "m"

\* quota-fetcher:265-276.
formatTime(ms) ==
    IF ms <= 0 THEN "Now"
    ELSE LET mins == Ceil(ms, 60000)
             h == mins \div 60
             d == h \div 24
             remH == h % 24
         IN IF mins < 60 THEN ToString(mins) \o "m"
            ELSE IF h >= 24
                 THEN IF remH > 0 THEN ToString(d) \o "d " \o ToString(remH) \o "h"
                      ELSE ToString(d) \o "d"
            ELSE ToString(h) \o "h " \o ToString(mins % 60) \o "m"

getIntervalMsNoFloor(cfg) ==
    (IF "arg" \in DOMAIN cfg THEN cfg.arg ELSE 30) * 1000

\* extension.ts:110-113: cfg.get('pollingInterval', 30) is the configured
\* value, 30 when there is none.
getIntervalMs(cfg) ==
    Max(30, IF "arg" \in DOMAIN cfg THEN cfg.arg ELSE 30) * 1000

FormatTime ==
    /\ FnFrame
    /\ result = Null /\ call.fn = "formatTime"
    /\ result' = [value |-> formatTime(call.arg)]
    /\ UNCHANGED call

\* startPolling (extension.ts:115-118) reads the period of its timer.
GetIntervalMs ==
    /\ FnFrame
    /\ result = Null /\ call.fn = "getIntervalMs"
    /\ result' = [value |-> getIntervalMs(call)]
    /\ UNCHANGED call

\* The indicator of a pool in the status bar (extension.ts:152) and in the
\* tooltip (extension.ts:195).
HealthDot ==
    /\ FnFrame
    /\ result = Null /\ call.fn = "healthDot"
    /\ result' = [statusBar |-> healthDot(call.arg), tooltip |-> TooltipEmoji(call.arg)]
    /\ UNCHANGED call

\* The name of a bucket's pool (quota-fetcher:245-260), as the status bar
\* (extension.ts:149-152) and the tooltip (extension.ts:204) show it.
DerivePoolName ==
    /\ FnFrame
    /\ result = Null /\ call.fn = "derivePoolName"
    /\ LET pool == PoolOf(MembersOf(call.arg))
       IN result' = [value |-> [id |-> pool.id, displayName |-> pool.displayName],
                     statusBar |-> StatusBarPart(pool).short,
                     tooltip |-> pool.displayName]
    /\ UNCHANGED call

FnInit == call \in Calls /\ result = Null

InitFn == FnInit /\ OrchIdle /\ LocIdle /\ ClsIdle /\ NetIdle

FnNext ==
    \/ FormatTime
    \/ GetIntervalMs
    \/ HealthDot
    \/ DerivePoolName

SpecFn == InitFn /\ [][FnNext]_vars

(***************************************************************************)
(* Properties of the event loop (Spec, FairSpec)                           *)
(***************************************************************************)

\* C2: in a refresh cycle whose first fetch failed, the second fetch carries
\* the port and token of the ProcessInfo the re-detection returned, and when
\* it resolves its snapshot is the stored and displayed one; when the
\* re-detection found nothing the cycle ends on 'Fetch failed' with the
\* stored ProcessInfo null.
C2_RedetectThenFetch ==
    /\ \A tk \in Running : tk.pc = "fetch2" =>
          /\ tk.fresh # Null
          /\ tk.port = tk.fresh.port
          /\ tk.csrfToken = tk.fresh.csrfToken
    /\ (ev.type = "end" /\ ev.ok /\ ev.why = "second") =>
          /\ lastSnapshot = [gen |-> ev.port]
          /\ statusBar = updateStatusBar(lastSnapshot)
    /\ (ev.type = "end" /\ ev.why = "redetect") =>
          /\ statusBar = showError("Fetch failed")
          /\ processInfo = Null

\* A cycle whose first fetch failed has just stored the snapshot fetched from
\* the second incarnation, found by its re-detection, over an older one.
C2_Witness ==
    /\ ev.type = "end" /\ ev.ok /\ ev.why = "second"
    /\ ev.port = 2
    /\ lastSnapshot = [gen |-> 2]
    /\ statusBar = updateStatusBar(lastSnapshot)

\* C5: a refreshQuota invocation (from the timer, the refresh command or the
\* initial sequence) that met no connection, a failed re-detection or a
\* failed fetch returns normally with the status bar in the error state.
C5_FailureShowsError ==
    (ev.type = "end" /\ ~ev.ok) =>
        /\ IsError(statusBar)
        /\ statusBar.msg \in {"No connection", "Fetch failed"}
        /\ \A tk \in Running : ~(tk.kind = ev.kind /\ InRefresh(tk) /\ tk.nFetch > 2)

\* A refresh command's cycle has just failed on its second fetch.
C5_Witness ==
    /\ ev.type = "end" /\ ~ev.ok /\ ev.kind = "manual" /\ ev.why = "second"
    /\ IsError(statusBar)

\* C6: after a failed cycle or a failed initial detection, if the language
\* server stays up as incarnation g and the extension stays active, timer
\* ticks alone eventually bring a snapshot to the status bar.
C6_EveryTickFreshAttempt ==
    \A g \in Gens :
        [](( /\ IsError(statusBar)
             /\ world = g
             /\ activated )
            => \/ <>(statusBar.mode = "snapshot")
               \/ <>(world # g)
               \/ <>(~activated))

\* C7 (as stated): at most one fetch-classify cycle is in flight.
C7_AtMostOneInFlight == InFlight <= 1

\* C7 (amended): the initial cycle is never overlapped by a timer tick: while
\* detectAndStart is running, no polling timer is armed and no interval
\* callback's cycle is in flight.
C7_InitialCycleNotOverlappedByTick ==
    (\E tk \in Running : tk.kind = "init") =>
        /\ ~pollingTimer
        /\ \A tk \in Running : tk.kind # "tick"

\* The initial cycle is in flight together with a refresh command's cycle.
C7_Witness ==
    /\ \E tk \in Running : tk.kind = "init" /\ InRefresh(tk)
    /\ \E tk \in Running : tk.kind = "manual" /\ InRefresh(tk)

\* C8: a refresh cycle issues at most one detection and at most two fetches;
\* one that reports failure after starting with a ProcessInfo has issued
\* exactly one re-detection, and its failure starts nothing: the cycles in
\* flight drop by one and the timer is as it was.
C8_Step ==
    /\ \A tk \in BagToSet(tasks') : tk.nDetect <= 1 /\ tk.nFetch <= 2
    /\ (ev'.type = "end" /\ ~ev'.ok /\ ev'.why # "noconn") =>
          /\ ev'.nDetect = 1
          /\ ev'.nFetch = (IF ev'.why = "redetect" THEN 1 ELSE 2)
          /\ BagCardinality([tk \in {x \in BagToSet(tasks') : InRefresh(x)} |-> tasks'[tk]])
                = InFlight - 1
          /\ pollingTimer' = pollingTimer
C8_OneRedetectAtMostTwoFetches == [][C8_Step]_vars

\* A cycle has just reported failure after its second fetch.
C8_Witness == ev.type = "end" /\ ~ev.ok /\ ev.why = "second" /\ ev.nFetch = 2 /\ ev.nDetect = 1


(***************************************************************************)
(* Properties of the locator (SpecLocator)                                 *)
(***************************************************************************)

\* C3: the candidate ports are probed in ascending numeric order, one after
\* the other from the lowest; every port probed before the last probed one
\* did not answer, so nothing is probed after a success; the port returned is
\* the lowest answering one (the Kth when only the Kth answers), and a port
\* is returned whenever one of the candidates answers.
C3_AscendingFirstSuccess ==
    /\ \A i, j \in 1..Len(ports) : i < j => ports[i] < ports[j]
    /\ Len(probed) <= Len(ports)
    /\ \A i \in 1..Len(probed) : probed[i] = ports[i]
    /\ \A i \in 1..(Len(probed) - 1) : probed[i] \notin answering
    /\ located # Null =>
          /\ probed # <<>>
          /\ located.port = probed[Len(probed)]
          /\ located.port \in answering
          /\ \A p \in answering : located.port <= p
    /\ (lpc = "done" /\ answering # {}) => located # Null

\* Three candidates of which only the second answers: the first two were
\* probed, the second is returned, the third was never probed.
C3_Witness ==
    /\ lpc = "done"
    /\ ports = <<1, 2, 3>>
    /\ answering = {2}
    /\ probed = <<1, 2>>
    /\ located # Null /\ located.port = 2

\* C4: findAntigravityProcess ends with null whichever step failed, a missing
\* token included, and a non-null result means that every step succeeded: a
\* process was selected, it carries a token, ports were listed and one of
\* them answered the probe.
C4_NullUnlessEveryStepSucceeded ==
    lpc = "done" =>
        (located # Null <=>
            /\ parsed # Null
            /\ parsed.csrfToken # ""
            /\ ports # <<>>
            /\ answering # {})

\* C9: a ProcessInfo that is returned always has a non-empty token.
C9_ReturnedTokenNonEmpty ==
    located # Null => located.csrfToken # ""

Candidates(listing) ==
    LET IsOwn(l) == l.own IN SelectSeq(listing, IsOwn)

Matching(listing, hint) ==
    {l \in Range(Candidates(listing)) : Includes(CmdLine(l), toWorkspaceId(hint))}

\* C10: with a workspace hint and several candidates, the process selected
\* is one whose command line contains the workspace identifier of the hint
\* whenever a candidate contains it, and the first candidate otherwise.
C10_Step ==
    (lpc = "findProcess" /\ wsHint # NoPath /\ Len(Candidates(procOut)) > 1
        /\ parsed' # Null) =>
        IF Matching(procOut, wsHint) # {}
        THEN \E l \in Matching(procOut, wsHint) : parsed'.pid = l.pid
        ELSE parsed'.pid = Candidates(procOut)[1].pid

C10_HintSelectsMatchingProcess == [][C10_Step]_vars


(***************************************************************************)
(* Properties of the classification (SpecClassify)                         *)
(***************************************************************************)

Classified == cpc = "done" /\ snapshot # Threw

PoolRefs(pool) == {pool.models[i].ref : i \in 1..Len(pool.models)}

SamePool(r1, r2) ==
    \E k \in 1..Len(snapshot.pools) : {r1, r2} \subseteq PoolRefs(snapshot.pools[k])

\* C1: after a classification, the models of the snapshot are exactly the
\* entries carrying quota info, and two of them are members of the same pool
\* if and only if their remainingPct and their resetTime are equal; entries
\* whose quotaInfo is identical in the payload are therefore in the same pool.
C1_PoolIsEquivalenceClass ==
    Classified =>
        /\ {snapshot.models[i].ref : i \in 1..Len(snapshot.models)}
              = {i \in 1..Len(payload.clientModelConfigs) :
                    HasQuota(payload.clientModelConfigs[i])}
        /\ \A i, j \in 1..Len(snapshot.models) :
              LET m1 == snapshot.models[i]
                  m2 == snapshot.models[j]
              IN /\ SamePool(m1.ref, m2.ref) <=>
                        (m1.remainingPct = m2.remainingPct /\ m1.resetTime = m2.resetTime)
                 /\ payload.clientModelConfigs[m1.ref].quotaInfo
                        = payload.clientModelConfigs[m2.ref].quotaInfo
                    => SamePool(m1.ref, m2.ref)

\* Two models of one family in two pools, as their reset times differ.
C1_Witness ==
    /\ Classified
    /\ Len(snapshot.models) = 2
    /\ snapshot.models[1].family = snapshot.models[2].family
    /\ snapshot.models[1].remainingPct = snapshot.models[2].remainingPct
    /\ snapshot.models[1].resetTime # snapshot.models[2].resetTime
    /\ Len(snapshot.pools) = 2
    /\ ~SamePool(1, 2)


(***************************************************************************)
(* Properties of the requests (SpecNet)                                    *)
(***************************************************************************)

\* C11: the probe and the status call fail only if both schemes fail: a port
\* that serves a scheme, plaintext only or encrypted only, on which the probe
\* is answered with 200 and JSON and the status call with JSON, is verified
\* and fetched.
C11_EitherSchemeSuffices ==
    (npc = "done" /\ server.serves # {}
        /\ TestPortOk(server.probe) /\ PostResolves(server.status))
    => verified /\ fetched

\* C17: every request issued, the probe, the status call and its retry with
\* the other scheme, targets host 127.0.0.1.
C17_LoopbackOnly ==
    \A i \in 1..Len(requests) : requests[i].hostname = "127.0.0.1"

\* The probe, the plaintext status call that fails and its encrypted retry.
C17_Witness ==
    /\ npc = "done" /\ fetched
    /\ Len(requests) = 3
    /\ requests[1].path = "GetUnleashData"
    /\ requests[2].protocol = "http"
    /\ requests[3].protocol = "https"


(***************************************************************************)
(* Further properties of the classification (SpecClassify)                 *)
(***************************************************************************)

\* The fraction that parseResponse reads from an entry, in tenths: the
\* remainingFraction of its quotaInfo, 0 when there is none.
FractionRead(ref) ==
    LET quotaInfo == payload.clientModelConfigs[ref].quotaInfo
    IN IF "remainingFraction" \in DOMAIN quotaInfo THEN quotaInfo.remainingFraction ELSE 0

\* C12: for every entry carrying quota info, the ModelQuota has remainingPct
\* equal to the fraction times 100 (ten times the fraction in tenths), within
\* 0..100, and isExhausted exactly when the fraction is 0.
C12_PctAndExhausted ==
    Classified =>
        \A i \in 1..Len(snapshot.models) :
            LET m == snapshot.models[i]
            IN /\ m.remainingPct = FractionRead(m.ref) * 10
               /\ m.remainingPct >= 0 /\ m.remainingPct <= 100
               /\ m.isExhausted <=> FractionRead(m.ref) = 0

\* A half-used model next to an exhausted one.
C12_Witness ==
    /\ Classified
    /\ Len(snapshot.models) = 2
    /\ snapshot.models[1].remainingPct = 50 /\ ~snapshot.models[1].isExhausted
    /\ snapshot.models[2].remainingPct = 0 /\ snapshot.models[2].isExhausted
    /\ "remainingFraction" \in DOMAIN payload.clientModelConfigs[2].quotaInfo

FamiliesOf(pool) == {pool.models[i].family : i \in 1..Len(pool.models)}

MonthlyDeclared ==
    IF "planStatus" \in DOMAIN payload /\ "planInfo" \in DOMAIN payload.planStatus
       /\ "monthlyPromptCredits" \in DOMAIN payload.planStatus.planInfo
    THEN payload.planStatus.planInfo.monthlyPromptCredits ELSE 0

AvailableDeclared ==
    "planStatus" \in DOMAIN payload /\ "availablePromptCredits" \in DOMAIN payload.planStatus

\* C16 as stated: the snapshot has credits exactly when the payload declares a
\* strictly positive monthly allotment.
C16_CreditsIffMonthlyPositive ==
    Classified => (snapshot.credits # Null <=> MonthlyDeclared > 0)

\* C16, amended: the snapshot has credits exactly when the payload declares a
\* strictly positive monthly allotment and an available amount; then
\* credits.remainingPct is available / monthly * 100; otherwise credits is
\* omitted and the snapshot still has its models and pools.
C16_CreditsIffMonthlyPositiveAndAvailable ==
    Classified =>
        /\ snapshot.credits # Null <=> (MonthlyDeclared > 0 /\ AvailableDeclared)
        /\ snapshot.credits # Null =>
              /\ snapshot.credits.monthly = MonthlyDeclared
              /\ snapshot.credits.available = payload.planStatus.availablePromptCredits
              /\ snapshot.credits.remainingPct * MonthlyDeclared
                    = payload.planStatus.availablePromptCredits * 100
        /\ Len(snapshot.models)
              = Cardinality({i \in 1..Len(payload.clientModelConfigs) :
                                HasQuota(payload.clientModelConfigs[i])})
        /\ (snapshot.models # <<>>) => (snapshot.pools # <<>>)

\* Credits of 5 out of 10, next to a classified model.
C16_Witness ==
    /\ Classified
    /\ snapshot.credits # Null
    /\ snapshot.credits.remainingPct = 50
    /\ Len(snapshot.pools) = 1

\* C20: when the models of the snapshot, two or more, all share one pool, its
\* status-bar label is "All Models"; when there are two or more pools, none
\* is labelled "All Models".
C20_AllModelsLabel ==
    (Classified /\ Len(snapshot.models) >= 2) =>
        IF Len(snapshot.pools) = 1
        THEN statusText[1].short = "All Models"
        ELSE \A k \in 1..Len(statusText) : statusText[k].short # "All Models"


(***************************************************************************)
(* Properties of the display functions (SpecFn)                            *)
(***************************************************************************)

Returned(fn) == result # Null /\ call.fn = fn

\* C13: formatTime gives "Now" for 0 ms, "5m" for 5 minutes, "2h 5m" for 125
\* minutes, "1d 2h" for 26 hours and "1d" for exactly 24 hours.
C13_FormatTimeFixedInputs ==
    Returned("formatTime") =>
        /\ call.arg = 0 => result.value = "Now"
        /\ call.arg = 5 * 60000 => result.value = "5m"
        /\ call.arg = 125 * 60000 => result.value = "2h 5m"
        /\ call.arg = 26 * 3600000 => result.value = "1d 2h"
        /\ call.arg = 24 * 3600000 => result.value = "1d"

C13_Witness ==
    Returned("formatTime") /\ call.arg = 26 * 3600000 /\ result.value = "1d 2h"

\* C18: for every configured pollingInterval, zero, negative and below 30
\* included, and for none, the period of the polling timer is
\* max(30, configured) seconds, never below 30 seconds.
C18_IntervalFloor ==
    Returned("getIntervalMs") =>
        /\ result.value >= 30 * 1000
        /\ "arg" \in DOMAIN call =>
              result.value = (IF call.arg > 30 THEN call.arg ELSE 30) * 1000
        /\ "arg" \notin DOMAIN call => result.value = 30 * 1000

\* A configured interval of 0 seconds gives a period of 30 seconds.
C18_Witness ==
    Returned("getIntervalMs") /\ "arg" \in DOMAIN call /\ call.arg = 0
        /\ result.value = 30000

\* C19: for every percentage in 0..100 the indicator is green above 50,
\* yellow from 20 to 50 inclusive and red below 20, the same in the status
\* bar and in the tooltip.
C19_HealthIndicator ==
    Returned("healthDot") =>
        /\ result.statusBar = result.tooltip
        /\ result.statusBar =
              (IF call.arg > 50 THEN "green"
               ELSE IF call.arg >= 20 THEN "yellow" ELSE "red")

\* The shapes of a formatted duration.
MinutesOnly == {ToString(n) \o "m" : n \in 1..59}

HoursMinutes ==
    {ToString(h) \o "h " \o ToString(m) \o "m" : h \in 1..23, m \in 0..59}

DaysHours ==
    {ToString(d) \o "d " \o ToString(h) \o "h" : d \in 1..(MaxDays + 1), h \in 1..23}

DaysOnly == {ToString(d) \o "d" : d \in 1..(MaxDays + 1)}

\* C21 as stated: formatTime gives "Now" for a non-positive duration, minutes
\* only for a positive duration below one hour, "Hh Mm" for a duration from
\* one hour to below 24 hours, and "Dd Hh" or, when the hour is zero, "Dd"
\* for a duration of 24 hours or more.
C21_ShapeByDuration ==
    Returned("formatTime") =>
        /\ call.arg <= 0 => result.value = "Now"
        /\ (0 < call.arg /\ call.arg < 3600000) => result.value \in MinutesOnly
        /\ (3600000 <= call.arg /\ call.arg < 24 * 3600000) =>
              result.value \in HoursMinutes
        /\ 24 * 3600000 <= call.arg =>
              result.value \in DaysHours \cup DaysOnly

\* C21, amended: the thresholds apply to the duration in whole minutes
\* rounded up.  With mins the rounded-up minutes, a non-positive duration
\* gives "Now", mins below 60 gives "<mins>m", mins from 60 to below 1440
\* gives "<hours>h <mins mod 60>m", and mins of 1440 or more gives
\* "<days>d <hours mod 24>h", or "<days>d" when the hours mod 24 are zero.
C21_ShapeByRoundedMinutes ==
    Returned("formatTime") =>
        LET mins == Ceil(call.arg, 60000)
        IN /\ call.arg <= 0 => result.value = "Now"
           /\ (call.arg > 0 /\ mins < 60) =>
                 /\ result.value \in MinutesOnly
                 /\ result.value = ToString(mins) \o "m"
           /\ (60 <= mins /\ mins < 1440) =>
                 /\ result.value \in HoursMinutes
                 /\ result.value =
                       ToString(mins \div 60) \o "h " \o ToString(mins % 60) \o "m"
           /\ (1440 <= mins /\ (mins \div 60) % 24 # 0) =>
                 /\ result.value \in DaysHours
                 /\ result.value = ToString(mins \div 1440) \o "d "
                                      \o ToString((mins \div 60) % 24) \o "h"
           /\ (1440 <= mins /\ (mins \div 60) % 24 = 0) =>
                 /\ result.value \in DaysOnly
                 /\ result.value = ToString(mins \div 1440) \o "d"

\* 59 minutes and one millisecond, below one hour, is shown as "1h 0m".
C21_Witness ==
    Returned("formatTime") /\ call.arg = 59 * 60000 + 1 /\ result.value = "1h 0m"

\* The families of the labels given to derivePoolName.
CallFamilies == {classifyFamily(call.arg[i], "unknown") : i \in 1..Len(call.arg)}

\* The name by the first matching rule: gemini and gemini_flash, gemini,
\* gemini_flash, claude or gpt, else the first member's label.
NameByPriority ==
    IF {"gemini", "gemini_flash"} \subseteq CallFamilies THEN "Gemini"
    ELSE IF "gemini" \in CallFamilies THEN "Gem Pro"
    ELSE IF "gemini_flash" \in CallFamilies THEN "Gem Flash"
    ELSE IF CallFamilies \cap {"claude", "gpt"} # {} THEN "Claude"
    ELSE call.arg[1]

RankOf(family) ==
    CASE family = "gemini" -> 1
      [] family = "gemini_flash" -> 2
      [] family = "claude" -> 3
      [] family = "gpt" -> 4
      [] OTHER -> 5

PoolRank(pool) ==
    CHOOSE r \in 1..5 :
        /\ r \in {RankOf(f) : f \in FamiliesOf(pool)}
        /\ \A f \in FamiliesOf(pool) : RankOf(f) >= r

\* The place in the payload at which the pool's bucket was discovered: the
\* place of its earliest member.
Discovered(pool) ==
    CHOOSE r \in PoolRefs(pool) : \A q \in PoolRefs(pool) : r <= q

Is2xxJson(answer) ==
    /\ answer.kind = "response"
    /\ answer.statusCode >= 200 /\ answer.statusCode <= 299
    /\ answer.body = "json"

\* C24: the status fetch fails whenever its request errors, times out,
\* returns a non-2xx status or a body that does not parse; it resolves, and a
\* snapshot is produced, only from a 2xx response with parseable JSON.
C24_SnapshotOnlyFrom2xxJson ==
    /\ fetched => Is2xxJson(server.status)
    /\ (npc = "done" /\ verified /\ ~Is2xxJson(server.status)) => ~fetched

\* C25: a payload lacking optional parts (no plan status, an empty model
\* list, entries without quota info, quota info without a reset time or
\* without a fraction) never fails the classification: a snapshot results,
\* whose models are the entries carrying quota info.
C25_MissingPartsNeverFail ==
    cpc = "done" =>
        /\ snapshot # Threw
        /\ Len(snapshot.models)
              = Cardinality({i \in 1..Len(payload.clientModelConfigs) :
                                HasQuota(payload.clientModelConfigs[i])})

\* A refresh cycle has just ended in failure, none is still running, and the
\* stored snapshot was fetched with a newer connection than the one the
\* failed cycle used: another cycle stored it while the failed one was in
\* flight.
FailedAfterPeerStored ==
    /\ ev.type = "end" /\ ~ev.ok /\ ev.why # "noconn"
    /\ InFlight = 0
    /\ lastSnapshot # Null /\ lastSnapshot.gen > ev.port

\* C26: when two refresh cycles overlap and one of them stores a snapshot
\* with a valid ProcessInfo, then after both have finished the stored
\* ProcessInfo is not null and the status bar is not in the error state:
\* the overlap changes only which snapshot is stored.
C26_OnlySnapshotIsLastWrite ==
    FailedAfterPeerStored => (processInfo # Null /\ ~IsError(statusBar))

\* C27: in every snapshot the pools partition the flat model list: each
\* entry of the payload that carried quota info is a member of exactly one
\* pool, no pool is empty, every member of a pool is a
\* model of the list, and the members of a pool are in payload order.
C27_PoolsPartitionModels ==
    Classified =>
        /\ \A i \in 1..Len(payload.clientModelConfigs) :
              HasQuota(payload.clientModelConfigs[i]) =>
                  Cardinality({k \in 1..Len(snapshot.pools) :
                                  i \in PoolRefs(snapshot.pools[k])}) = 1
        /\ \A k \in 1..Len(snapshot.pools) :
              LET members == snapshot.pools[k].models
              IN /\ Len(members) >= 1
                 /\ \A j \in 1..Len(members) :
                       \E i \in 1..Len(snapshot.models) : snapshot.models[i] = members[j]
                 /\ \A j \in 1..(Len(members) - 1) : members[j].ref < members[j + 1].ref

\* Two models with quota info in one pool, in payload order.
C27_Witness ==
    /\ Classified
    /\ Len(snapshot.models) = 2 /\ Len(snapshot.pools) = 1
    /\ Len(snapshot.pools[1].models) = 2
    /\ snapshot.pools[1].models[1].ref < snapshot.pools[1].models[2].ref

\* The refresh cycles awaiting their first fetch.
FirstFetches == BagCardinality([tk \in {x \in Running : x.pc = "fetch1"} |-> tasks[tk]])

\* Once deactivate has run, a step leaves no polling timer armed and starts
\* no refresh cycle.
C28_Step ==
    ~activated => (~pollingTimer' /\ FirstFetches' <= FirstFetches)

\* C28: after deactivate no polling timer is active and no further
\* fetch-classify cycle is started, whatever was awaiting when it ran: the
\* initial detect-and-start sequence or a refresh.
C28_QuietAfterDeactivate == [][C28_Step]_vars

\* The timeout of the confirmation of a refresh command whose refreshQuota
\* failed fires in this step.
FailedRefreshTimeout ==
    \E tk \in Running :
        /\ tk.pc = "confirmWait" /\ tk.outcome = "failed"
        /\ tasks' = tasks (-) One(tk)

\* C29: after a manual refresh whose fetch and retry failed, the delayed
\* confirmation step leaves the display as it is: it does not put the
\* snapshot kept from an earlier successful cycle in the place of the error.
C29_Step ==
    FailedRefreshTimeout => (statusBar' = statusBar \/ IsError(statusBar'))

C29_ErrorNotReplacedByStaleSnapshot == [][C29_Step]_vars

====
